---- MODULE Spec2Model ----
(***************************************************************************)
(* Model of msm_we/_lagtime.py: get_history_graph builds the directed      *)
(* graph connecting every weighted-ensemble trajectory segment to its      *)
(* immediate parent, child_to_parent_mapping maps every node to its        *)
(* ancestor a given number of generations back.                            *)
(***************************************************************************)
EXTENDS Integers, Sequences, FiniteSets, TLC

(* Bounds of the model: the archives and the calls that are explored. *)
MaxIter == 2        \* iterations 1..MaxIter may be stored in the archive
MaxSegments == 3    \* segments stored in the archive, over all iterations
MaxStateId == 1     \* initial states carry a state_id in 0..MaxStateId
MaxDegree == 3      \* child_to_parent_mapping is called with degree <= MaxDegree

VARIABLES
    pc,                \* position in get_history_graph
    current_iteration, \* data_manager.current_iteration
    backing,           \* "closed" | "open": the data manager's backing file
    calls,             \* the data-manager calls made so far, in order
    n_iter,            \* loop variable of get_history_graph
    segments,          \* data_manager.get_segments(n_iter)
    parent_id,         \* segment.parent_id of every segment visited so far
    initial_states,    \* {state.state_id: state}
    seg_pos,           \* number of segments of `segments` already visited
    parent_segments,   \* the preceding iteration's segment list
    history_graph,     \* nx.DiGraph under construction / returned
    exception,         \* exception that left get_history_graph, or "none"
    returned,          \* TRUE once get_history_graph has returned history_graph
    degree,            \* argument of the last child_to_parent_mapping call
    mapping,           \* its return value
    outcome            \* "none" | "returned" | the exception it raised

vars == <<pc, current_iteration, backing, calls, n_iter, segments, parent_id, initial_states,
          seg_pos, parent_segments, history_graph, exception, returned,
          degree, mapping, outcome>>

(***************************************************************************)
(* Objects.  Segment and InitialState define neither __eq__ nor __hash__,  *)
(* so a node is the object itself: a segment is identified by the          *)
(* iteration that produced it and its position in that iteration's list,   *)
(* an initial state by the get_initial_states call that created it and its *)
(* state_id.  The attribute segment.parent_id is an input of the archive:  *)
(* it is drawn when the loop reads it and kept in parent_id.               *)
(***************************************************************************)
Segment(n, i) == [kind |-> "Segment", n_iter |-> n, seg_id |-> i]

InitialState(n, s) == [kind |-> "InitialState", n_iter |-> n, state_id |-> s]

ParentIds == (-(MaxStateId + 2)) .. (MaxSegments - 1)

StateIds == 0 .. MaxStateId

Degrees == (-1) .. MaxDegree

(* The lists data_manager.get_segments(n) may return when `read` segments *)
(* have been read before.                                                 *)
SegmentLists(n, read) ==
    { [i \in 1..len |-> Segment(n, i - 1)] : len \in 0..(MaxSegments - read) }

(***************************************************************************)
(* networkx.DiGraph: nodes in insertion order, edges as (u, v) pairs.      *)
(***************************************************************************)
DiGraph == [nodes |-> << >>, edges |-> {}]

Range(s) == { s[i] : i \in 1..Len(s) }

add_node(G, u) ==
    IF u \in Range(G.nodes) THEN G ELSE [G EXCEPT !.nodes = Append(@, u)]

\* add_edge with the edge pointing from the parent to the child
add_edge_reversed(G, u, v) ==
    [add_node(add_node(G, u), v) EXCEPT !.edges = @ \cup {<<v, u>>}]

\* add_edge of an undirected graph (nx.Graph): the edge is stored both ways
add_edge_undirected(G, u, v) ==
    [add_node(add_node(G, u), v) EXCEPT !.edges = @ \cup {<<u, v>>, <<v, u>>}]

add_edge(G, u, v) ==
    [add_node(add_node(G, u), v) EXCEPT !.edges = @ \cup {<<u, v>>}]

(***************************************************************************)
(* get_history_graph                                                       *)
(***************************************************************************)
Init ==
    /\ pc = "open_backing"
    /\ current_iteration \in 1..(MaxIter + 1)
    /\ backing = "closed"
    /\ calls = << >>
    /\ n_iter = 0
    /\ segments = << >>
    /\ parent_id = << >>
    /\ initial_states = << >>
    /\ seg_pos = 0
    /\ parent_segments = << >>
    /\ history_graph = DiGraph
    /\ exception = "none"
    /\ returned = FALSE
    /\ degree = 0
    /\ mapping = << >>
    /\ outcome = "none"

\* one data-manager call: the method, its argument (0 when it takes none) and
\* whether the backing was open when the call was made
Call(op, n) == [op |-> op, n_iter |-> n, backing |-> backing]

\* data_manager.open_backing(); history_graph = nx.DiGraph(); parent_segments = []
OpenBacking ==
    /\ pc = "open_backing"
    /\ backing' = "open"
    /\ calls' = Append(calls, Call("open_backing", 0))
    /\ history_graph' = DiGraph
    /\ parent_segments' = << >>
    /\ pc' = "for"
    /\ UNCHANGED <<current_iteration, n_iter, segments, parent_id, initial_states, seg_pos,
                   exception, returned, degree, mapping, outcome>>

\* for n_iter in range(1, current_iteration): segments = get_segments(n_iter)
GetSegments ==
    /\ pc = "for"
    /\ n_iter + 1 < current_iteration
    /\ n_iter' = n_iter + 1
    /\ \E segs \in SegmentLists(n_iter + 1, Cardinality(DOMAIN parent_id)) :
          segments' = segs
    /\ calls' = Append(calls, Call("get_segments", n_iter + 1))
    /\ pc' = "get_initial_states"
    /\ UNCHANGED <<current_iteration, backing, parent_id, initial_states, seg_pos,
                   parent_segments, history_graph, exception, returned,
                   degree, mapping, outcome>>

\* initial_states = {state.state_id: state for state in get_initial_states(n_iter)}
GetInitialStates ==
    /\ pc = "get_initial_states"
    /\ \E ids \in SUBSET StateIds :
          initial_states' = [s \in ids |-> InitialState(n_iter, s)]
    /\ calls' = Append(calls, Call("get_initial_states", n_iter))
    /\ seg_pos' = 0
    /\ pc' = "segment"
    /\ UNCHANGED <<current_iteration, backing, n_iter, segments, parent_id, parent_segments,
                   history_graph, exception, returned, degree, mapping, outcome>>

\* for segment in segments: the segment the loop visits next
segment == segments[seg_pos + 1]

\* parent_segments[i] for i >= 0 raises IndexError unless i < len(parent_segments)
IndexInRange(list, i) == i < Len(list)

\* the sign transform without its offset
state_id_no_offset(p) == -p

\* state_id = -(segment.parent_id + 1)
state_id(p) == -(p + 1)

\* the parent looked up in the list of the iteration being processed
parent_segment_same_iteration(p) ==
    IF p < Len(segments) THEN segments[p + 1] ELSE parent_segments[p + 1]

\* parent = parent_segments[segment.parent_id]
parent_segment(p) == parent_segments[p + 1]

\* parent = initial_states[state_id]
initial_state(p) == initial_states[state_id(p)]

\* segment.parent_id >= 0: parent = parent_segments[segment.parent_id];
\* history_graph.add_edge(segment, parent)
AddSegmentParent ==
    /\ pc = "segment"
    /\ seg_pos < Len(segments)
    /\ \E p \in ParentIds :
          /\ p >= 0
          /\ IndexInRange(parent_segments, p)
          /\ parent_id' = (segment :> p) @@ parent_id
          /\ history_graph' = add_edge(history_graph, segment, parent_segment(p))
    /\ seg_pos' = seg_pos + 1
    /\ UNCHANGED <<pc, current_iteration, backing, calls, n_iter, segments,
                   initial_states, parent_segments, exception, returned,
                   degree, mapping, outcome>>

\* an unresolvable index is skipped silently instead of raising
SkipIndexError ==
    /\ pc = "segment"
    /\ seg_pos < Len(segments)
    /\ \E p \in ParentIds :
          /\ p >= 0
          /\ ~IndexInRange(parent_segments, p)
          /\ parent_id' = (segment :> p) @@ parent_id
    /\ seg_pos' = seg_pos + 1
    /\ UNCHANGED <<pc, current_iteration, backing, calls, n_iter, segments, initial_states,
                   parent_segments, history_graph, exception, returned,
                   degree, mapping, outcome>>

\* ... and the list index is out of range: IndexError leaves the function
RaiseIndexError ==
    /\ pc = "segment"
    /\ seg_pos < Len(segments)
    /\ \E p \in ParentIds :
          /\ p >= 0
          /\ ~IndexInRange(parent_segments, p)
          /\ parent_id' = (segment :> p) @@ parent_id
    /\ exception' = "IndexError"
    /\ pc' = "raised"
    /\ UNCHANGED <<current_iteration, backing, calls, n_iter, segments, initial_states,
                   seg_pos, parent_segments, history_graph, returned,
                   degree, mapping, outcome>>

\* segment.parent_id < 0: parent = initial_states[state_id];
\* history_graph.add_edge(segment, parent)
AddInitialStateParent ==
    /\ pc = "segment"
    /\ seg_pos < Len(segments)
    /\ \E p \in ParentIds :
          /\ p < 0
          /\ state_id(p) \in DOMAIN initial_states
          /\ parent_id' = (segment :> p) @@ parent_id
          /\ history_graph' = add_edge(history_graph, segment, initial_state(p))
    /\ seg_pos' = seg_pos + 1
    /\ UNCHANGED <<pc, current_iteration, backing, calls, n_iter, segments,
                   initial_states, parent_segments, exception, returned,
                   degree, mapping, outcome>>

\* ... and the dict has no such key: KeyError leaves the function
RaiseKeyError ==
    /\ pc = "segment"
    /\ seg_pos < Len(segments)
    /\ \E p \in ParentIds :
          /\ p < 0
          /\ state_id(p) \notin DOMAIN initial_states
          /\ parent_id' = (segment :> p) @@ parent_id
    /\ exception' = "KeyError"
    /\ pc' = "raised"
    /\ UNCHANGED <<current_iteration, backing, calls, n_iter, segments, initial_states,
                   seg_pos, parent_segments, history_graph, returned,
                   degree, mapping, outcome>>

\* parent_segments = segments
EndIteration ==
    /\ pc = "segment"
    /\ seg_pos = Len(segments)
    /\ parent_segments' = segments
    /\ pc' = "for"
    /\ UNCHANGED <<current_iteration, backing, calls, n_iter, segments, parent_id, initial_states,
                   seg_pos, history_graph, exception, returned, degree, mapping, outcome>>

\* the loop ends and the function returns without closing the backing
CloseBackingForgotten ==
    /\ pc = "for"
    /\ ~(n_iter + 1 < current_iteration)
    /\ pc' = "return"
    /\ UNCHANGED <<current_iteration, backing, calls, n_iter, segments, parent_id,
                   initial_states, seg_pos, parent_segments, history_graph, exception,
                   returned, degree, mapping, outcome>>

\* the range is exhausted: data_manager.close_backing()
CloseBacking ==
    /\ pc = "for"
    /\ ~(n_iter + 1 < current_iteration)
    /\ backing' = "closed"
    /\ calls' = Append(calls, Call("close_backing", 0))
    /\ pc' = "return"
    /\ UNCHANGED <<current_iteration, n_iter, segments, parent_id, initial_states, seg_pos,
                   parent_segments, history_graph, exception, returned,
                   degree, mapping, outcome>>

\* return history_graph
Return ==
    /\ pc = "return"
    /\ returned' = TRUE
    /\ pc' = "done"
    /\ UNCHANGED <<current_iteration, backing, calls, n_iter, segments, parent_id, initial_states,
                   seg_pos, parent_segments, history_graph, exception,
                   degree, mapping, outcome>>

(***************************************************************************)
(* child_to_parent_mapping                                                 *)
(***************************************************************************)
Max(S) == CHOOSE x \in S : \A y \in S : y <= x

\* nx.adjacency_matrix(G): entry (i, j) is 1 iff nodes[i] -> nodes[j] is an edge
adjacency_matrix(G) ==
    [i \in 1..Len(G.nodes) |->
        [j \in 1..Len(G.nodes) |->
            IF <<G.nodes[i], G.nodes[j]>> \in G.edges THEN 1 ELSE 0]]

RECURSIVE SumTo(_, _)
SumTo(f, n) == IF n = 0 THEN 0 ELSE f[n] + SumTo(f, n - 1)

\* sparse matrix product
MatMul(A, B) ==
    [i \in DOMAIN A |->
        [j \in DOMAIN A |-> SumTo([k \in DOMAIN A |-> A[i][k] * B[k][j]], Len(A))]]

\* scipy.sparse.eye
eye(A) == [i \in DOMAIN A |-> [j \in DOMAIN A |-> IF i = j THEN 1 ELSE 0]]

RECURSIVE IntPow(_, _)
IntPow(x, n) == IF n = 0 THEN 1 ELSE x * IntPow(x, n - 1)

\* the element-wise power of the entries instead of the matrix power
matrix_power_elementwise(A, power) ==
    [i \in DOMAIN A |-> [j \in DOMAIN A |-> IntPow(A[i][j], power)]]

\* repeated squaring that drops the extra factor of an odd power
RECURSIVE matrix_power_even_only(_, _)
matrix_power_even_only(A, power) ==
    IF power = 0 THEN eye(A)
    ELSE IF power = 1 THEN A
    ELSE LET tmp == matrix_power_even_only(A, power \div 2) IN MatMul(tmp, tmp)

\* adjacency_matrix ** power, for power >= 0: the matrix power, as `**` is for
\* the scipy sparse matrix (spmatrix.__pow__) nx.adjacency_matrix returns here;
\* power 0 gives the identity, larger powers are built by repeated squaring
RECURSIVE matrix_power(_, _)
matrix_power(A, power) ==
    IF power = 0 THEN eye(A)
    ELSE IF power = 1 THEN A
    ELSE LET tmp == matrix_power(A, power \div 2)
         IN  IF power % 2 = 1 THEN MatMul(MatMul(A, tmp), tmp) ELSE MatMul(tmp, tmp)

\* sparse.find: the coordinates of the nonzero entries
find(M) == { <<i, j>> \in (DOMAIN M) \X (DOMAIN M) : M[i][j] # 0 }

\* for i, j, _ in zip(*sparse.find(m)): mapping[nodes[i]] = nodes[j]
\* (a later assignment to the same key replaces an earlier one)
NodeMapping(nodes, m) ==
    LET nz == find(m)
        rows == { c[1] : c \in nz }
        key(u) == CHOOSE i \in rows : nodes[i] = u
    IN  [u \in { nodes[i] : i \in rows } |->
            nodes[Max({ c[2] : c \in { e \in nz : e[1] = key(u) } })]]

\* nx.adjacency_matrix raises NetworkXError for a graph without nodes, `**`
\* raises ValueError for a negative exponent; degree itself is never checked
child_to_parent_mapping(G, d) ==
    IF Len(G.nodes) = 0
    THEN [outcome |-> "NetworkXError", mapping |-> << >>]
    ELSE IF d < 0
    THEN [outcome |-> "ValueError", mapping |-> << >>]
    ELSE [outcome |-> "returned",
          mapping |-> NodeMapping(G.nodes, matrix_power(adjacency_matrix(G), d))]

\* a caller holding the returned graph calls child_to_parent_mapping(graph, d)
ChildToParentMapping ==
    /\ pc = "done"
    /\ \E d \in Degrees :
          \E r \in {child_to_parent_mapping(history_graph, d)} :
             /\ degree' = d
             /\ outcome' = r.outcome
             /\ mapping' = r.mapping
    /\ UNCHANGED <<pc, current_iteration, backing, calls, n_iter, segments, parent_id, initial_states,
                   seg_pos, parent_segments, history_graph, exception, returned>>

Next ==
    \/ OpenBacking
    \/ GetSegments
    \/ GetInitialStates
    \/ AddSegmentParent
    \/ RaiseIndexError
    \/ AddInitialStateParent
    \/ RaiseKeyError
    \/ EndIteration
    \/ CloseBacking
    \/ Return
    \/ ChildToParentMapping

Spec == Init /\ [][Next]_vars

(***************************************************************************)
(* Vocabulary of the properties                                            *)
(***************************************************************************)
Nodes == Range(history_graph.nodes)

Edges == history_graph.edges

OutDegree(u) == Cardinality({ e \in Edges : e[1] = u })

InDegree(u) == Cardinality({ e \in Edges : e[2] = u })

\* the nodes one parent edge away from a node of S
Parents(S) == { e[2] : e \in { x \in Edges : x[1] \in S } }

\* the nodes exactly d parent edges away from a node of S
RECURSIVE Ancestors(_, _)
Ancestors(S, d) == IF d = 0 THEN S ELSE Ancestors(Parents(S), d - 1)

\* the segments whose parent reference the loop has resolved
Processed == { s \in DOMAIN parent_id : ~(pc = "raised" /\ s = segment) }

\* the parent a reference p of a segment s of iteration n denotes: the segment
\* at index p of iteration n-1, or the initial state -(p+1) of iteration m
Decoded(s, m) ==
    IF parent_id[s] >= 0
    THEN [kind |-> "Segment", n_iter |-> s.n_iter - 1, seg_id |-> parent_id[s]]
    ELSE [kind |-> "InitialState", n_iter |-> m, state_id |-> (-parent_id[s]) - 1]

\* a reference p that cannot be resolved against the preceding iteration's
\* segment list and the initial-state set at hand
Malformed(p) ==
    \/ p >= 0 /\ p >= Len(parent_segments)
    \/ p < 0 /\ \A k \in DOMAIN initial_states : initial_states[k].state_id # (-p) - 1

(***************************************************************************)
(* C1: every processed segment s of iteration n has exactly the edge       *)
(* s -> parent, where parent is the segment at index parent_id of          *)
(* iteration n-1 when parent_id >= 0 and otherwise the initial state       *)
(* -(parent_id + 1); there is no other edge.  The initial state is the     *)
(* one read for iteration n itself (get_initial_states(n)).                *)
(***************************************************************************)
C1_ParentDecoding ==
    /\ Edges = { <<s, Decoded(s, s.n_iter)>> : s \in Processed }
    /\ \A e \in Edges : e[1] \in Nodes /\ e[2] \in Nodes
    /\ \A s \in Processed : parent_id[s] >= 0 => Decoded(s, s.n_iter) \in Processed

\* C1 as stated: the initial state is one of the immediately preceding iteration
C1_AsStated ==
    Edges = { <<s, Decoded(s, s.n_iter - 1)>> : s \in Processed }

C1_Witness ==
    /\ returned
    /\ \E s \in Processed : parent_id[s] = 1 /\ <<s, Decoded(s, s.n_iter)>> \in Edges
    /\ \E s \in Processed : parent_id[s] = -2 /\ <<s, Decoded(s, s.n_iter)>> \in Edges

(***************************************************************************)
(* C2: a mapping returned for a degree d >= 1 has as keys exactly the      *)
(* nodes from which d parent edges can be followed, and maps each to the   *)
(* one node reached after exactly d hops.                                  *)
(***************************************************************************)
C2_MappingIsWalk ==
    (outcome = "returned" /\ degree >= 1) =>
        /\ DOMAIN mapping = { s \in Nodes : Ancestors({s}, degree) # {} }
        /\ \A s \in DOMAIN mapping : Ancestors({s}, degree) = {mapping[s]}

C2_Witness ==
    /\ outcome = "returned"
    /\ degree = 2
    /\ DOMAIN mapping # {}
    /\ \E s \in Nodes : OutDegree(s) = 1 /\ s \notin DOMAIN mapping

(***************************************************************************)
(* C3: a segment whose parent reference is malformed makes construction    *)
(* stop at that segment with IndexError (index out of range) or KeyError   *)
(* (unknown state id): no edge is added for it, nothing is read or added   *)
(* afterwards and no graph is returned.                                    *)
(***************************************************************************)
AbortsWith(index_error, key_error) ==
    /\ (pc = "segment" /\ seg_pos < Len(segments) /\ Malformed(parent_id'[segment])) =>
          /\ pc' = "raised"
          /\ exception' = IF parent_id'[segment] >= 0 THEN index_error ELSE key_error
          /\ history_graph' = history_graph
          /\ ~returned'
    /\ pc = "raised" => pc' = "raised" /\ ~returned' /\ history_graph' = history_graph

C3_AbortsOnMalformed == [][AbortsWith("IndexError", "KeyError")]_vars

\* C3 as stated: the exception is MalformedLineageError
C3_AsStated == [][AbortsWith("MalformedLineageError", "MalformedLineageError")]_vars

C3_Witness ==
    /\ pc = "raised"
    /\ exception = "IndexError"
    /\ n_iter = 2
    /\ Edges # {}
    /\ ~returned

(***************************************************************************)
(* C4: a call with degree <= 0 returns no mapping.                         *)
(***************************************************************************)
C4_NonPositiveDegreeFails ==
    (outcome # "none" /\ degree <= 0) => outcome # "returned"

(***************************************************************************)
(* C5: when no segment exists the builder returns the empty graph, and a   *)
(* call with a degree >= 1 on that graph returns the empty mapping.        *)
(***************************************************************************)
C5_EmptyGraphEmptyMapping ==
    /\ (pc = "done" /\ parent_id = << >>) => (returned /\ Nodes = {} /\ Edges = {})
    /\ (outcome # "none" /\ degree >= 1 /\ Nodes = {}) =>
          (outcome = "returned" /\ DOMAIN mapping = {})

(***************************************************************************)
(* C6: at every point of the construction every Segment node of the graph  *)
(* has exactly one outgoing edge, however many children share its parent.  *)
(***************************************************************************)
C6_SegmentOutDegreeOne ==
    \A u \in Nodes : u.kind = "Segment" => OutDegree(u) = 1

C6_Witness ==
    /\ returned
    /\ \E u \in Nodes : u.kind = "Segment" /\ InDegree(u) = 2 /\ OutDegree(u) = 1

(***************************************************************************)
(* C7: every InitialState node has out-degree 0; an iteration-1 segment    *)
(* whose parent is an initial state has out-degree 1, its one edge leading *)
(* to that initial state.                                                  *)
(***************************************************************************)
FirstIterationSeeded(u) ==
    /\ u.kind = "Segment"
    /\ u.n_iter = 1
    /\ \E e \in Edges : e[1] = u /\ e[2].kind = "InitialState"

C7_TerminalNodes ==
    returned =>
        \A u \in Nodes :
            /\ u.kind = "InitialState" => OutDegree(u) = 0
            /\ FirstIterationSeeded(u) => OutDegree(u) = 1
            /\ OutDegree(u) = 0 => u.kind = "InitialState"

\* C7 as stated: the iteration-1 segments seeded from an initial state have out-degree 0
C7_AsStated ==
    returned =>
        \A u \in Nodes :
            /\ u.kind = "InitialState" => OutDegree(u) = 0
            /\ FirstIterationSeeded(u) => OutDegree(u) = 0

C7_Witness ==
    /\ returned
    /\ \E u \in Nodes : FirstIterationSeeded(u)
    /\ \E u \in Nodes : u.kind = "InitialState" /\ InDegree(u) = 2

(***************************************************************************)
(* C8: every edge leads from a segment of iteration n to a segment of      *)
(* iteration n-1 or to an initial state, and no node reaches itself.       *)
(***************************************************************************)
C8_Acyclic ==
    /\ \A e \in Edges :
          /\ e[1].kind = "Segment"
          /\ \/ e[2].kind = "InitialState"
             \/ e[2].kind = "Segment" /\ e[2].n_iter = e[1].n_iter - 1
    /\ \A u \in Nodes : \A d \in 1..Cardinality(Nodes) : u \notin Ancestors({u}, d)

C8_Witness ==
    /\ returned
    /\ \E u \in Nodes : \E v \in Ancestors({u}, 2) : v.kind = "InitialState"

(***************************************************************************)
(* C9: the keys of the mapping of degree d+1 are keys of the mapping of    *)
(* degree d, and the mapping of degree d+1 is the mapping of degree d      *)
(* followed by the mapping of degree 1.                                    *)
(***************************************************************************)
C9_MonotonicShrinkage ==
    (outcome = "returned" /\ degree >= 2) =>
        LET m1 == child_to_parent_mapping(history_graph, 1).mapping
            md == child_to_parent_mapping(history_graph, degree - 1).mapping
        IN  /\ DOMAIN mapping \subseteq DOMAIN md
            /\ \A s \in DOMAIN mapping :
                  md[s] \in DOMAIN m1 /\ mapping[s] = m1[md[s]]
            /\ \A s \in DOMAIN md : md[s] \in DOMAIN m1 => s \in DOMAIN mapping

C9_Witness ==
    /\ outcome = "returned"
    /\ degree = 2
    /\ DOMAIN mapping # {}
    /\ DOMAIN mapping # DOMAIN child_to_parent_mapping(history_graph, 1).mapping

(***************************************************************************)
(* C10: open_backing is called once and first; the k-th get_segments and   *)
(* the k-th get_initial_states read iteration k; every read is made while  *)
(* the backing is open; when the graph is returned close_backing has been  *)
(* called once, as the last call.                                          *)
(***************************************************************************)
CallsOf(op) == { i \in 1..Len(calls) : calls[i].op = op }

ReadsInOrder(op) ==
    \A i \in CallsOf(op) :
        /\ calls[i].n_iter = Cardinality({ j \in CallsOf(op) : j <= i })
        /\ calls[i].backing = "open"
        /\ \A j \in CallsOf("close_backing") : i < j

C10_BackingLifecycle ==
    /\ Cardinality(CallsOf("open_backing")) <= 1
    /\ Len(calls) > 0 => calls[1].op = "open_backing" /\ calls[1].backing = "closed"
    /\ ReadsInOrder("get_segments")
    /\ ReadsInOrder("get_initial_states")
    /\ \A i \in CallsOf("get_initial_states") :
          calls[i - 1] = [calls[i] EXCEPT !.op = "get_segments"]
    /\ returned =>
          /\ Cardinality(CallsOf("close_backing")) = 1
          /\ calls[Len(calls)].op = "close_backing"
          /\ calls[Len(calls)].backing = "open"
          /\ backing = "closed"

C10_Witness ==
    /\ returned
    /\ Cardinality(CallsOf("get_segments")) = 2
    /\ Cardinality(CallsOf("get_initial_states")) = 2

====
